---- MODULE Spec2Model ----
(***************************************************************************)
(* Implied-volatility solver of GBS_FX_pricing.ipynb                       *)
(* (_newton_vol_implicite falling back on _rech_dichotomique_vol_implicite)*)
(* as a state machine over fixed-point numbers.                            *)
(*                                                                         *)
(* Number representation (the notebook uses IEEE doubles):                 *)
(*   volatility : integer multiples of 1/400   (0.005 = 2, 1.0 = 400)      *)
(*   prices     : integer multiples of 1/10    (fs = 100.0 is 1000)        *)
(*   vega       : price units per 1.0 of volatility                        *)
(*   time t     : quarters of a year, rates r, b : percent                 *)
(* Every division rounds to the nearest representable number.              *)
(***************************************************************************)
EXTENDS Integers, FiniteSets, Sequences, TLC

VARIABLES
    \* inputs of one call _newton_vol_implicite(val_fn, option_type, x, fs, t, b, r, cp, precision, max_steps)
    val_fn, option_type, fs, x, t, r, b, cp, precision, max_steps,
    \* control state of the call
    pc,
    \* locals of _newton_vol_implicite
    v, value, vega, min_diff, countr,
    \* locals of _rech_dichotomique_vol_implicite
    v_low, v_high, v_mid, cp_mid, diff, current_step,
    \* outcome: the returned volatility, or the triple formatted into GBS_CalculationError
    outcome,
    \* history of the val_fn calls made so far: <<volatility, |cp - value|>> in call order
    evals,
    \* one call of black_scholes or garman_kohlhagen: control state, the function
    \* called, its arguments, the arguments and number of its current _gbs call,
    \* what _gbs returned last, the lines printed, what the function returned or raised
    p_pc, p_entry, p_args, g_args, g_call, g_result, printed, p_result,
    \* arguments of a call of euro_vol_implicite, which runs the solver
    euro_args,
    \* several solver calls in one process: the suspended calls' local state
    \* and the call that is running
    frames, running

inputs == <<val_fn, option_type, fs, x, t, r, b, cp, precision, max_steps>>
newton_locals == <<v, value, vega, min_diff, countr>>
bisect_locals == <<v_low, v_high, v_mid, cp_mid, diff, current_step>>
solver_vars == <<inputs, pc, newton_locals, bisect_locals, outcome, evals>>
pricing_vars == <<p_pc, p_entry, p_args, g_args, g_call, g_result, printed, p_result>>
\* everything a step of the running solver call leaves alone
outside == <<pricing_vars, euro_args, frames, running>>
vars == <<solver_vars, outside>>

----------------------------------------------------------------------------
(* Bounds of the model *)

\* largest max_steps a caller passes
MaxSteps == 3

\* number of solver calls that run interleaved
NumCalls == 2
CallIds == 1..NumCalls

----------------------------------------------------------------------------
(* _GBS_Limites *)

MIN_V == 2
MAX_V == 400

\* number of volatility units in 1.0 (MAX_V = 1)
VolScale == MAX_V

----------------------------------------------------------------------------
(* Arithmetic helpers *)

Abs(n) == IF n < 0 THEN -n ELSE n

\* num / den rounded to the nearest integer (den # 0)
RoundDiv(num, den) ==
    LET n2 == IF den < 0 THEN -num ELSE num
        d2 == Abs(den)
    IN  (2 * n2 + d2) \div (2 * d2)

\* what a numpy float division by zero yields: +inf, -inf, or nan for 0/0
PosInf == 1000 * MAX_V
NegInf == -PosInf
NaN == PosInf + 1

\* float comparisons: every comparison with nan is false
Gt(p, q) == p # NaN /\ q # NaN /\ p > q
Lt(p, q) == p # NaN /\ q # NaN /\ p < q

\* Python's max(p, q) and min(p, q): the first argument unless the second beats it
PyMax(p, q) == IF Gt(q, p) THEN q ELSE p
PyMin(p, q) == IF Lt(q, p) THEN q ELSE p

\* the integer nearest to the square root of m (m below 2048 * 2048)
NearestRoot(m) ==
    CHOOSE j \in 0..2047 :
        /\ (j = 0 \/ (2 * j - 1) * (2 * j - 1) <= 4 * m)
        /\ 4 * m < (2 * j + 1) * (2 * j + 1)

\* math.sqrt on integers; the argument is evaluated once
ISqrt(n) == CHOOSE res \in {NearestRoot(m) : m \in {n}} : TRUE

\* math.exp(k/400) in thousandths, on the arguments the bounded inputs produce
ExpMilli(k) ==
    CASE k = 0   -> 1000
      [] k = 5   -> 1013
      [] k = -5  -> 988
      [] k = 20  -> 1051
      [] k = -20 -> 951

\* sqrt(2*pi) in thousandths, pi in hundredths
Sqrt2PiMilli == 2507
PiCenti == 314

----------------------------------------------------------------------------
(* val_fn: the pricing function handed to the solver.  The solver only    *)
(* uses value (index 0) and vega (index 4) of the tuple it returns, as a  *)
(* function of the volatility it passes.                                  *)

ValFns == {"linear", "convex", "concave", "flat", "kink", "vee", "steep"}

\* value returned by val_fn at volatility vol
ValueOf(f, vol) ==
    CASE f = "linear"  -> vol
      [] f = "convex"  -> vol + RoundDiv(vol * vol, 100)
      [] f = "concave" -> 3 * vol - RoundDiv(vol * vol, 400)
      [] f = "flat"    -> 50
      [] f = "kink"    -> IF vol < 200 THEN 0 ELSE vol - 200
      [] f = "vee"     -> Abs(vol - 200)
      [] f = "steep"   -> vol

\* vega returned by val_fn at volatility vol (price units per 1.0 of volatility)
VegaOf(f, vol) ==
    CASE f = "linear"  -> VolScale
      [] f = "convex"  -> VolScale + 8 * vol
      [] f = "concave" -> 3 * VolScale - 2 * vol
      [] f = "flat"    -> 0
      [] f = "kink"    -> IF vol < 200 THEN 0 ELSE VolScale
      [] f = "vee"     -> IF vol < 200 THEN -VolScale ELSE VolScale
      [] f = "steep"   -> VolScale \div 4

\* the price functions of the family that are strictly increasing in volatility
StrictlyIncreasing(f) == f \in {"linear", "convex", "concave", "steep"}

----------------------------------------------------------------------------
(* _vol_implicite_approx: closed-form starting point of both searches *)

vol_implicite_approx(ot, s, k, tq, rr, bb, c) ==
    LET ebrt   == ExpMilli((bb - rr) * tq)
        ert    == ExpMilli(-(rr * tq))
        denom  == RoundDiv(s * ebrt + k * ert, 100)
        payoff == IF ot = "c" THEN RoundDiv(s * ebrt - k * ert, 1000)
                              ELSE RoundDiv(k * ert - s * ebrt, 1000)
        b2     == c - RoundDiv(payoff, 2)
        c2     == RoundDiv(payoff * payoff * 100, PiCenti)
    IN  RoundDiv(Sqrt2PiMilli * (b2 + ISqrt(b2 * b2 + c2)) * 8, denom * ISqrt(tq))

----------------------------------------------------------------------------
(* Pieces of _newton_vol_implicite *)

\* faulty variant: the upper clamp is forgotten
ClampLowerOnly(w) == PyMax(MIN_V, w)

\* v = max(MIN_V, v); v = min(MAX_V, v)
Clamp(w) == PyMin(MAX_V, PyMax(MIN_V, w))

\* faulty variant: one update too many
NewtonGuardOffByOne(val, md, n) ==
    /\ precision <= Abs(cp - val)
    /\ Abs(cp - val) <= md
    /\ n <= max_steps

\* faulty variant: the residual is not compared with the best one
NewtonGuardNoBest(val, md, n) ==
    /\ precision <= Abs(cp - val)
    /\ n < max_steps

\* while precision <= abs(cp - value) <= min_diff and countr < max_steps
NewtonGuard(val, md, n) ==
    /\ precision <= Abs(cp - val)
    /\ Abs(cp - val) <= md
    /\ n < max_steps

\* v - (value - cp) / vega
NewtonUpdate(w, val, vg) ==
    IF vg = 0
    THEN (IF val = cp THEN NaN ELSE IF val > cp THEN NegInf ELSE PosInf)
    ELSE w - RoundDiv((val - cp) * VolScale, vg)

\* faulty variant: only the upper edge of the band is tested
OutOfBandUpperOnly(w) == Gt(w, MAX_V)

\* (v > MAX_V) or (v < MIN_V)
OutOfBand(w) == Gt(w, MAX_V) \/ Lt(w, MIN_V)

\* faulty variant: <= in place of <
NewtonConvergedInclusive(val) == Abs(cp - val) <= precision

\* if abs(cp - value) < precision: return v
NewtonConverged(val) == Abs(cp - val) < precision

----------------------------------------------------------------------------
(* Pieces of _rech_dichotomique_vol_implicite *)

\* faulty variant: an estimate on a limit is not treated as out of limits
BracketStrict(e) ==
    IF e < MIN_V \/ e > MAX_V
    THEN <<MIN_V, MAX_V, (MIN_V + MAX_V) \div 2>>
    ELSE <<PyMax(MIN_V, RoundDiv(e, 2)), PyMin(MAX_V, RoundDiv(3 * e, 2)), e>>

\* faulty variant: the narrowed bracket is not clamped into the band
BracketUnclamped(e) ==
    IF e <= MIN_V \/ e >= MAX_V
    THEN <<MIN_V, MAX_V, (MIN_V + MAX_V) \div 2>>
    ELSE <<RoundDiv(e, 2), RoundDiv(3 * e, 2), e>>

\* initial <<v_low, v_high, v_mid>> from the starting estimate e
Bracket(e) ==
    IF e <= MIN_V \/ e >= MAX_V
    THEN <<MIN_V, MAX_V, (MIN_V + MAX_V) \div 2>>
    ELSE <<PyMax(MIN_V, RoundDiv(e, 2)), PyMin(MAX_V, RoundDiv(3 * e, 2)), e>>

\* faulty variant: one pass too many
BisectGuardOffByOne(d, n) == d > precision /\ n <= max_steps

\* while (diff > precision) and (current_step < max_steps)
BisectGuard(d, n) == d > precision /\ n < max_steps

\* v_low + (cp - cp_low) * (v_high - v_low) / (cp_high - cp_low)
Interpolate(vl, vh, cl, ch) ==
    LET num == (cp - cl) * (vh - vl)
        den == ch - cl
    IN  IF den = 0
        THEN (IF num = 0 THEN NaN ELSE IF num > 0 THEN PosInf ELSE NegInf)
        ELSE vl + RoundDiv(num, den)

\* faulty variant: <= in place of <
BisectConvergedInclusive(cm) == Abs(cp - cm) <= precision

\* if abs(cp - cp_mid) < precision: return v_mid
BisectConverged(cm) == Abs(cp - cm) < precision

\* faulty variant: diff and precision swapped in the format arguments
ErrorReportSwapped(vm, d, prec) == [estimate |-> vm, residual |-> prec, precision |-> d]

\* the values formatted into GBS_CalculationError
ErrorReport(vm, d, prec) == [estimate |-> vm, residual |-> d, precision |-> prec]

----------------------------------------------------------------------------
(* Inputs a caller passes *)

OptionTypes == {"c", "p"}
SpotPrices == {1000}
Strikes == {800, 1000, 1250}
Times == {1, 4}
Rates == {0, 5}
Carries == {0, 5}
MarketPrices == {1, 20, 50, 100, 250, 399, 600}
Precisions == {1, 3}

NoOutcome == [kind |-> "none"]

\* one val_fn call at volatility vol, as recorded in the history
Evaluation(vol) == <<vol, Abs(cp - ValueOf(val_fn, vol))>>

\* no pricing call made yet
NoArgs == [kind |-> "none"]
NoResult == [kind |-> "none"]

\* the local state of a solver call that has not started
IdleFrame ==
    [val_fn |-> "none", option_type |-> "none",
     fs |-> 0, x |-> 0, t |-> 0, r |-> 0, b |-> 0,
     cp |-> 0, precision |-> 0, max_steps |-> 0,
     pc |-> "Idle",
     v |-> 0, value |-> 0, vega |-> 0, min_diff |-> 0, countr |-> 0,
     v_low |-> 0, v_high |-> 0, v_mid |-> 0, cp_mid |-> 0, diff |-> 0, current_step |-> 0,
     outcome |-> NoOutcome, evals |-> << >>]

\* before the call: no arguments bound, no local assigned
Init ==
    /\ val_fn = "none" /\ option_type = "none"
    /\ fs = 0 /\ x = 0 /\ t = 0 /\ r = 0 /\ b = 0
    /\ cp = 0 /\ precision = 0 /\ max_steps = 0
    /\ pc = "Idle"
    /\ v = 0 /\ value = 0 /\ vega = 0 /\ min_diff = 0 /\ countr = 0
    /\ v_low = 0 /\ v_high = 0 /\ v_mid = 0 /\ cp_mid = 0 /\ diff = 0 /\ current_step = 0
    /\ outcome = NoOutcome
    /\ evals = << >>
    /\ p_pc = "Idle" /\ p_entry = "none" /\ p_args = NoArgs
    /\ g_args = NoArgs /\ g_call = 0 /\ g_result = NoResult
    /\ printed = << >> /\ p_result = NoResult
    /\ euro_args = NoArgs
    /\ frames = [c \in CallIds |-> IdleFrame]
    /\ running = 1

\* a caller invokes the solver: the arguments are bound
Call ==
    /\ pc = "Idle"
    /\ val_fn' \in ValFns
    /\ option_type' \in OptionTypes
    /\ fs' \in SpotPrices
    /\ x' \in Strikes
    /\ t' \in Times
    /\ r' \in Rates
    /\ b' \in Carries
    /\ cp' \in MarketPrices
    /\ precision' \in Precisions
    /\ max_steps' \in 1..MaxSteps
    /\ pc' = "Estimating"
    /\ UNCHANGED <<newton_locals, bisect_locals, outcome, evals, outside>>

----------------------------------------------------------------------------
(* _newton_vol_implicite *)

\* starting estimate, clamped, and the first val_fn call
NewtonStart ==
    /\ pc = "Estimating"
    /\ \E est \in {vol_implicite_approx(option_type, fs, x, t, r, b, cp)} :
          v' = Clamp(est)
    /\ value' = ValueOf(val_fn, v')
    /\ vega' = VegaOf(val_fn, v')
    /\ min_diff' = Abs(cp - value')
    /\ countr' = 0
    /\ evals' = Append(evals, Evaluation(v'))
    /\ pc' = "Newton"
    /\ UNCHANGED <<inputs, bisect_locals, outcome, outside>>

\* one full pass of the while body
NewtonStep ==
    /\ pc = "Newton"
    /\ NewtonGuard(value, min_diff, countr)
    /\ ~OutOfBand(NewtonUpdate(v, value, vega))
    /\ v' = NewtonUpdate(v, value, vega)
    /\ value' = ValueOf(val_fn, v')
    /\ vega' = VegaOf(val_fn, v')
    /\ min_diff' = PyMin(Abs(cp - value'), min_diff)
    /\ countr' = countr + 1
    /\ evals' = Append(evals, Evaluation(v'))
    /\ UNCHANGED <<inputs, pc, bisect_locals, outcome, outside>>

\* the update leaves the band: break, keeping the updated v and the old value
NewtonBreak ==
    /\ pc = "Newton"
    /\ NewtonGuard(value, min_diff, countr)
    /\ OutOfBand(NewtonUpdate(v, value, vega))
    /\ v' = NewtonUpdate(v, value, vega)
    /\ pc' = "NewtonEnd"
    /\ UNCHANGED <<inputs, value, vega, min_diff, countr, bisect_locals, outcome, evals, outside>>

\* the while condition is false
NewtonLoopEnd ==
    /\ pc = "Newton"
    /\ ~NewtonGuard(value, min_diff, countr)
    /\ pc' = "NewtonEnd"
    /\ UNCHANGED <<inputs, newton_locals, bisect_locals, outcome, evals, outside>>

NewtonReturn ==
    /\ pc = "NewtonEnd"
    /\ NewtonConverged(value)
    /\ outcome' = [kind |-> "return", vol |-> v]
    /\ pc' = "Converged"
    /\ UNCHANGED <<inputs, newton_locals, bisect_locals, evals, outside>>

----------------------------------------------------------------------------
(* _rech_dichotomique_vol_implicite *)

\* faulty variant: the fallback brackets around the v the Newton search left
BisectStartFromNewton ==
    /\ pc = "NewtonEnd"
    /\ ~NewtonConverged(value)
    /\ \E est \in {v} :
          /\ v_low' = Bracket(est)[1]
          /\ v_high' = Bracket(est)[2]
          /\ v_mid' = Bracket(est)[3]
    /\ cp_mid' = ValueOf(val_fn, v_mid')
    /\ current_step' = 0
    /\ diff' = Abs(cp - cp_mid')
    /\ evals' = Append(evals, Evaluation(v_mid'))
    /\ pc' = "Bisection"
    /\ UNCHANGED <<inputs, newton_locals, outcome, outside>>

\* the else branch of _newton_vol_implicite: call the fallback, up to its loop
BisectStart ==
    /\ pc = "NewtonEnd"
    /\ ~NewtonConverged(value)
    /\ \E est \in {vol_implicite_approx(option_type, fs, x, t, r, b, cp)} :
          /\ v_low' = Bracket(est)[1]
          /\ v_high' = Bracket(est)[2]
          /\ v_mid' = Bracket(est)[3]
    /\ cp_mid' = ValueOf(val_fn, v_mid')
    /\ current_step' = 0
    /\ diff' = Abs(cp - cp_mid')
    /\ evals' = Append(evals, Evaluation(v_mid'))
    /\ pc' = "Bisection"
    /\ UNCHANGED <<inputs, newton_locals, outcome, outside>>

\* faulty variant: the comparison of cp_mid with cp is reversed
BisectStepReversed ==
    /\ pc = "Bisection"
    /\ BisectGuard(diff, current_step)
    /\ current_step' = current_step + 1
    /\ v_low' = IF cp_mid > cp THEN v_mid ELSE v_low
    /\ v_high' = IF cp_mid > cp THEN v_high ELSE v_mid
    /\ v_mid' = Clamp(Interpolate(v_low', v_high',
                                  ValueOf(val_fn, v_low'), ValueOf(val_fn, v_high')))
    /\ cp_mid' = ValueOf(val_fn, v_mid')
    /\ diff' = Abs(cp - cp_mid')
    /\ evals' = evals \o <<Evaluation(v_low'), Evaluation(v_high'), Evaluation(v_mid')>>
    /\ UNCHANGED <<inputs, pc, newton_locals, outcome, outside>>

\* one full pass of the while body
BisectStep ==
    /\ pc = "Bisection"
    /\ BisectGuard(diff, current_step)
    /\ current_step' = current_step + 1
    /\ v_low' = IF cp_mid < cp THEN v_mid ELSE v_low
    /\ v_high' = IF cp_mid < cp THEN v_high ELSE v_mid
    /\ v_mid' = Clamp(Interpolate(v_low', v_high',
                                  ValueOf(val_fn, v_low'), ValueOf(val_fn, v_high')))
    /\ cp_mid' = ValueOf(val_fn, v_mid')
    /\ diff' = Abs(cp - cp_mid')
    /\ evals' = evals \o <<Evaluation(v_low'), Evaluation(v_high'), Evaluation(v_mid')>>
    /\ UNCHANGED <<inputs, pc, newton_locals, outcome, outside>>

\* the while condition is false
BisectLoopEnd ==
    /\ pc = "Bisection"
    /\ ~BisectGuard(diff, current_step)
    /\ pc' = "BisectionEnd"
    /\ UNCHANGED <<inputs, newton_locals, bisect_locals, outcome, evals, outside>>

BisectReturn ==
    /\ pc = "BisectionEnd"
    /\ BisectConverged(cp_mid)
    /\ outcome' = [kind |-> "return", vol |-> v_mid]
    /\ pc' = "Converged"
    /\ UNCHANGED <<inputs, newton_locals, bisect_locals, evals, outside>>

BisectRaise ==
    /\ pc = "BisectionEnd"
    /\ ~BisectConverged(cp_mid)
    /\ outcome' = ErrorReport(v_mid, diff, precision)
    /\ pc' = "Failed"
    /\ UNCHANGED <<inputs, newton_locals, bisect_locals, evals, outside>>

----------------------------------------------------------------------------

Next ==
    \/ Call
    \/ NewtonStart
    \/ NewtonStep
    \/ NewtonBreak
    \/ NewtonLoopEnd
    \/ NewtonReturn
    \/ BisectStart
    \/ BisectStep
    \/ BisectLoopEnd
    \/ BisectReturn
    \/ BisectRaise

Spec == Init /\ [][Next]_vars

\* the call is sequential code: it keeps running until it returns or raises
FairSpec == Spec /\ WF_vars(Next)

----------------------------------------------------------------------------
(* Numbers of the pricing functions                                        *)
(*   fs, x, t : decimals <<whole, thousandths>>, standing for              *)
(*              whole + thousandths/1000 with 0 <= thousandths < 1000      *)
(*   r, b, rf : percent;  v : multiples of 1/400, as in the solver         *)

DecZero == <<0, 0>>

\* d < e on decimals
DecLess(d, e) == d[1] < e[1] \/ (d[1] = e[1] /\ d[2] < e[2])

(* _GBS_Limites *)

MAX32 == <<2147483248, 0>>
MIN_T == <<0, 1>>
MIN_X == <<0, 10>>
MIN_FS == <<0, 10>>
MAX_T == <<100, 0>>
MAX_X == MAX32
MAX_FS == MAX32
MIN_b == -100
MIN_r == -100
MAX_b == 100
MAX_r == 100

----------------------------------------------------------------------------
(* _test_option_type, _gbs_test_inputs, _gbs *)

\* the line _test_option_type prints, if any
test_option_type(ot) ==
    IF ot # "c" /\ ot # "p" THEN <<"option_type">> ELSE << >>

\* faulty variant: the limits themselves are reported (<=, >= in place of <, >)
gbs_test_inputs_exclusive(ot, s, k, tt, rr, bb, vol) ==
    test_option_type(ot)
    \o (IF ~DecLess(MIN_X, k) \/ ~DecLess(k, MAX_X) THEN <<"X">> ELSE << >>)
    \o (IF ~DecLess(MIN_FS, s) \/ ~DecLess(s, MAX_FS) THEN <<"FS">> ELSE << >>)
    \o (IF ~DecLess(MIN_T, tt) \/ ~DecLess(tt, MAX_T) THEN <<"T">> ELSE << >>)
    \o (IF bb <= MIN_b \/ bb >= MAX_b THEN <<"b">> ELSE << >>)
    \o (IF rr <= MIN_r \/ rr >= MAX_r THEN <<"r">> ELSE << >>)
    \o (IF vol <= MIN_V \/ vol >= MAX_V THEN <<"V">> ELSE << >>)

\* faulty variant: the check of the carry is missing
gbs_test_inputs_no_carry(ot, s, k, tt, rr, bb, vol) ==
    test_option_type(ot)
    \o (IF DecLess(k, MIN_X) \/ DecLess(MAX_X, k) THEN <<"X">> ELSE << >>)
    \o (IF DecLess(s, MIN_FS) \/ DecLess(MAX_FS, s) THEN <<"FS">> ELSE << >>)
    \o (IF DecLess(tt, MIN_T) \/ DecLess(MAX_T, tt) THEN <<"T">> ELSE << >>)
    \o (IF rr < MIN_r \/ rr > MAX_r THEN <<"r">> ELSE << >>)
    \o (IF vol < MIN_V \/ vol > MAX_V THEN <<"V">> ELSE << >>)

\* the lines _gbs_test_inputs prints, in order: one per input outside its limits;
\* it raises nothing
gbs_test_inputs(ot, s, k, tt, rr, bb, vol) ==
    test_option_type(ot)
    \o (IF DecLess(k, MIN_X) \/ DecLess(MAX_X, k) THEN <<"X">> ELSE << >>)
    \o (IF DecLess(s, MIN_FS) \/ DecLess(MAX_FS, s) THEN <<"FS">> ELSE << >>)
    \o (IF DecLess(tt, MIN_T) \/ DecLess(MAX_T, tt) THEN <<"T">> ELSE << >>)
    \o (IF bb < MIN_b \/ bb > MAX_b THEN <<"b">> ELSE << >>)
    \o (IF rr < MIN_r \/ rr > MAX_r THEN <<"r">> ELSE << >>)
    \o (IF vol < MIN_V \/ vol > MAX_V THEN <<"V">> ELSE << >>)

\* the exception the preliminary computations of _gbs raise, in evaluation order:
\*   math.sqrt(t) with t < 0; fs / x with x = 0; math.log(fs / x) with fs / x <= 0;
\*   the division by v * t__sqrt when it is 0 (Python floats, no numpy value yet)
gbs_error(s, k, tt, vol) ==
    IF DecLess(tt, DecZero) THEN "ValueError"
    ELSE IF k = DecZero THEN "ZeroDivisionError"
    ELSE IF s = DecZero \/ (DecLess(s, DecZero) # DecLess(k, DecZero)) THEN "ValueError"
    ELSE IF vol = 0 \/ tt = DecZero THEN "ZeroDivisionError"
    ELSE "none"

\* what _gbs(option_type, fs, x, t, r, b, v) returns or raises once the inputs are
\* tested: the formula of the branch taken ("c" is the call, anything else the put)
\* applied to the arguments as they are
gbs(ot, s, k, tt, rr, bb, vol) ==
    IF gbs_error(s, k, tt, vol) # "none"
    THEN [kind |-> "exception", error |-> gbs_error(s, k, tt, vol)]
    ELSE [kind |-> "result",
          formula |-> IF ot = "c" THEN "call" ELSE "put",
          fs |-> s, x |-> k, t |-> tt, r |-> rr, b |-> bb, v |-> vol]

----------------------------------------------------------------------------
(* The value computed by _gbs, in hundredths of a price unit, where the     *)
(* tables below cover the arguments: fs = 100, x in {80, 100, 125},         *)
(* t in {1/4, 1}, (b - r) * t and -r * t arguments of ExpMilli, v > 0.      *)

\* a decimal in hundredths; a time in quarters of a year
Centi(d) == 100 * d[1] + d[2] \div 10
Quarters(d) == 4 * d[1] + d[2] \div 250

\* math.log(fs / x) in thousandths, by fs / x in thousandths
LogMilli(ratio) ==
    CASE ratio = 1250 -> 223
      [] ratio = 1000 -> 0
      [] ratio = 800  -> -223

\* norm.cdf in ten-thousandths at -4.00, -3.99, ..., 4.00
CdfTable ==
    <<0, 0, 0, 0, 0, 0, 0, 0, 0, 0, 0, 1, 1, 1, 1, 1,
      1, 1, 1, 1, 1, 1, 1, 1, 1, 1, 1, 1, 1, 1, 1, 1,
      1, 1, 1, 1, 1, 1, 1, 2, 2, 2, 2, 2, 2, 2, 2, 2,
      2, 2, 2, 2, 3, 3, 3, 3, 3, 3, 3, 3, 3, 3, 4, 4,
      4, 4, 4, 4, 5, 5, 5, 5, 5, 5, 6, 6, 6, 6, 6, 7,
      7, 7, 7, 8, 8, 8, 8, 9, 9, 9, 10, 10, 10, 11, 11, 11,
      12, 12, 13, 13, 13, 14, 14, 15, 15, 16, 16, 17, 18, 18, 19, 19,
      20, 21, 21, 22, 23, 23, 24, 25, 26, 26, 27, 28, 29, 30, 31, 32,
      33, 34, 35, 36, 37, 38, 39, 40, 41, 43, 44, 45, 47, 48, 49, 51,
      52, 54, 55, 57, 59, 60, 62, 64, 66, 68, 69, 71, 73, 75, 78, 80,
      82, 84, 87, 89, 91, 94, 96, 99, 102, 104, 107, 110, 113, 116, 119, 122,
      125, 129, 132, 136, 139, 143, 146, 150, 154, 158, 162, 166, 170, 174, 179, 183,
      188, 192, 197, 202, 207, 212, 217, 222, 228, 233, 239, 244, 250, 256, 262, 268,
      274, 281, 287, 294, 301, 307, 314, 322, 329, 336, 344, 351, 359, 367, 375, 384,
      392, 401, 409, 418, 427, 436, 446, 455, 465, 475, 485, 495, 505, 516, 526, 537,
      548, 559, 571, 582, 594, 606, 618, 630, 643, 655, 668, 681, 694, 708, 721, 735,
      749, 764, 778, 793, 808, 823, 838, 853, 869, 885, 901, 918, 934, 951, 968, 985,
      1003, 1020, 1038, 1056, 1075, 1093, 1112, 1131, 1151, 1170, 1190, 1210, 1230, 1251, 1271, 1292,
      1314, 1335, 1357, 1379, 1401, 1423, 1446, 1469, 1492, 1515, 1539, 1562, 1587, 1611, 1635, 1660,
      1685, 1711, 1736, 1762, 1788, 1814, 1841, 1867, 1894, 1922, 1949, 1977, 2005, 2033, 2061, 2090,
      2119, 2148, 2177, 2206, 2236, 2266, 2296, 2327, 2358, 2389, 2420, 2451, 2483, 2514, 2546, 2578,
      2611, 2643, 2676, 2709, 2743, 2776, 2810, 2843, 2877, 2912, 2946, 2981, 3015, 3050, 3085, 3121,
      3156, 3192, 3228, 3264, 3300, 3336, 3372, 3409, 3446, 3483, 3520, 3557, 3594, 3632, 3669, 3707,
      3745, 3783, 3821, 3859, 3897, 3936, 3974, 4013, 4052, 4090, 4129, 4168, 4207, 4247, 4286, 4325,
      4364, 4404, 4443, 4483, 4522, 4562, 4602, 4641, 4681, 4721, 4761, 4801, 4840, 4880, 4920, 4960,
      5000, 5040, 5080, 5120, 5160, 5199, 5239, 5279, 5319, 5359, 5398, 5438, 5478, 5517, 5557, 5596,
      5636, 5675, 5714, 5753, 5793, 5832, 5871, 5910, 5948, 5987, 6026, 6064, 6103, 6141, 6179, 6217,
      6255, 6293, 6331, 6368, 6406, 6443, 6480, 6517, 6554, 6591, 6628, 6664, 6700, 6736, 6772, 6808,
      6844, 6879, 6915, 6950, 6985, 7019, 7054, 7088, 7123, 7157, 7190, 7224, 7257, 7291, 7324, 7357,
      7389, 7422, 7454, 7486, 7517, 7549, 7580, 7611, 7642, 7673, 7704, 7734, 7764, 7794, 7823, 7852,
      7881, 7910, 7939, 7967, 7995, 8023, 8051, 8078, 8106, 8133, 8159, 8186, 8212, 8238, 8264, 8289,
      8315, 8340, 8365, 8389, 8413, 8438, 8461, 8485, 8508, 8531, 8554, 8577, 8599, 8621, 8643, 8665,
      8686, 8708, 8729, 8749, 8770, 8790, 8810, 8830, 8849, 8869, 8888, 8907, 8925, 8944, 8962, 8980,
      8997, 9015, 9032, 9049, 9066, 9082, 9099, 9115, 9131, 9147, 9162, 9177, 9192, 9207, 9222, 9236,
      9251, 9265, 9279, 9292, 9306, 9319, 9332, 9345, 9357, 9370, 9382, 9394, 9406, 9418, 9429, 9441,
      9452, 9463, 9474, 9484, 9495, 9505, 9515, 9525, 9535, 9545, 9554, 9564, 9573, 9582, 9591, 9599,
      9608, 9616, 9625, 9633, 9641, 9649, 9656, 9664, 9671, 9678, 9686, 9693, 9699, 9706, 9713, 9719,
      9726, 9732, 9738, 9744, 9750, 9756, 9761, 9767, 9772, 9778, 9783, 9788, 9793, 9798, 9803, 9808,
      9812, 9817, 9821, 9826, 9830, 9834, 9838, 9842, 9846, 9850, 9854, 9857, 9861, 9864, 9868, 9871,
      9875, 9878, 9881, 9884, 9887, 9890, 9893, 9896, 9898, 9901, 9904, 9906, 9909, 9911, 9913, 9916,
      9918, 9920, 9922, 9925, 9927, 9929, 9931, 9932, 9934, 9936, 9938, 9940, 9941, 9943, 9945, 9946,
      9948, 9949, 9951, 9952, 9953, 9955, 9956, 9957, 9959, 9960, 9961, 9962, 9963, 9964, 9965, 9966,
      9967, 9968, 9969, 9970, 9971, 9972, 9973, 9974, 9974, 9975, 9976, 9977, 9977, 9978, 9979, 9979,
      9980, 9981, 9981, 9982, 9982, 9983, 9984, 9984, 9985, 9985, 9986, 9986, 9987, 9987, 9987, 9988,
      9988, 9989, 9989, 9989, 9990, 9990, 9990, 9991, 9991, 9991, 9992, 9992, 9992, 9992, 9993, 9993,
      9993, 9993, 9994, 9994, 9994, 9994, 9994, 9995, 9995, 9995, 9995, 9995, 9995, 9996, 9996, 9996,
      9996, 9996, 9996, 9997, 9997, 9997, 9997, 9997, 9997, 9997, 9997, 9997, 9997, 9998, 9998, 9998,
      9998, 9998, 9998, 9998, 9998, 9998, 9998, 9998, 9998, 9998, 9999, 9999, 9999, 9999, 9999, 9999,
      9999, 9999, 9999, 9999, 9999, 9999, 9999, 9999, 9999, 9999, 9999, 9999, 9999, 9999, 9999, 9999,
      9999, 9999, 9999, 9999, 9999, 9999, 10000, 10000, 10000, 10000, 10000, 10000, 10000, 10000, 10000, 10000,
      10000>>

\* norm.cdf(z / 100) in ten-thousandths
Cdf(z) ==
    IF z < -400 THEN 0
    ELSE IF z > 400 THEN 10000
    ELSE CdfTable[z + 401]

\* the arguments are covered by LogMilli, ExpMilli and the exact square roots
Tabulated(s, k, tt, rr, bb, vol) ==
    /\ s = <<100, 0>>
    /\ k \in {<<80, 0>>, <<100, 0>>, <<125, 0>>}
    /\ tt \in {<<0, 250>>, <<1, 0>>}
    /\ (bb - rr) * Quarters(tt) \in {0, 5, -5, 20, -20}
    /\ -rr * Quarters(tt) \in {0, 5, -5, 20, -20}
    /\ vol > 0

\* fs * math.exp((b - r) * t) and x * math.exp(-r * t), in hundredths
CarriedSpot(s, tt, rr, bb) == RoundDiv(Centi(s) * ExpMilli((bb - rr) * Quarters(tt)), 1000)
DiscountedStrike(k, tt, rr) == RoundDiv(Centi(k) * ExpMilli(-rr * Quarters(tt)), 1000)

\* v * t__sqrt in hundredths
VolSqrtT(tt, vol) == RoundDiv(vol * ISqrt(Quarters(tt)), 8)

\* d1 = (math.log(fs / x) + (b + (v * v) / 2) * t) / (v * t__sqrt), in hundredths:
\* numerator and denominator in millionths
D1(s, k, tt, bb, vol) ==
    RoundDiv(100 * (1000 * LogMilli(RoundDiv(1000 * Centi(s), Centi(k)))
                    + 2500 * bb * Quarters(tt)
                    + RoundDiv(25 * vol * vol * Quarters(tt), 32)),
             1250 * vol * ISqrt(Quarters(tt)))

\* d2 = d1 - v * t__sqrt
D2(s, k, tt, bb, vol) == D1(s, k, tt, bb, vol) - VolSqrtT(tt, vol)

\* value = fs * exp((b - r) * t) * norm.cdf(d1) - x * exp(-r * t) * norm.cdf(d2)
call_value(s, k, tt, rr, bb, vol) ==
    RoundDiv(CarriedSpot(s, tt, rr, bb) * Cdf(D1(s, k, tt, bb, vol)), 10000)
    - RoundDiv(DiscountedStrike(k, tt, rr) * Cdf(D2(s, k, tt, bb, vol)), 10000)

\* faulty variant: norm.cdf(d2), norm.cdf(d1) in place of norm.cdf(-d2), norm.cdf(-d1)
put_value_unmirrored(s, k, tt, rr, bb, vol) ==
    RoundDiv(DiscountedStrike(k, tt, rr) * Cdf(D2(s, k, tt, bb, vol)), 10000)
    - RoundDiv(CarriedSpot(s, tt, rr, bb) * Cdf(D1(s, k, tt, bb, vol)), 10000)

\* value = x * exp(-r * t) * norm.cdf(-d2) - (fs * exp((b - r) * t) * norm.cdf(-d1))
put_value(s, k, tt, rr, bb, vol) ==
    RoundDiv(DiscountedStrike(k, tt, rr) * Cdf(-D2(s, k, tt, bb, vol)), 10000)
    - RoundDiv(CarriedSpot(s, tt, rr, bb) * Cdf(-D1(s, k, tt, bb, vol)), 10000)

\* the value field of a result of gbs
ResultValue(res) ==
    IF res.formula = "call"
    THEN call_value(res.fs, res.x, res.t, res.r, res.b, res.v)
    ELSE put_value(res.fs, res.x, res.t, res.r, res.b, res.v)

----------------------------------------------------------------------------
(* black_scholes, garman_kohlhagen *)

\* b = r
black_scholes_carry(rr) == rr

\* faulty variant: the foreign rate is added
garman_kohlhagen_carry_added(rr, rf) == rr + rf

\* b = r - rf
garman_kohlhagen_carry(rr, rf) == rr - rf

PricingTypes == {"c", "p", "x"}
PricingSpots == {<<-1, 0>>, <<0, 5>>, MIN_FS, <<100, 0>>, MAX_FS, <<2147483248, 1>>}
PricingStrikes == {<<0, 0>>, MIN_X, <<80, 0>>, <<100, 0>>, <<125, 0>>, MAX_X, <<2147483249, 0>>}
PricingTimes == {<<-1, 0>>, <<0, 0>>, MIN_T, <<0, 250>>, <<1, 0>>, MAX_T, <<100, 1>>}
PricingRates == {MIN_r - 1, MIN_r, 0, 5, MAX_r, MAX_r + 1}
ForeignRates == {0, 5}
PricingVols == {0, 1, MIN_V, 80, MAX_V, MAX_V + 1}

\* black_scholes(option_type, fs, x, t, r, v) is called: b = r, then the first _gbs call
BlackScholes ==
    /\ p_pc = "Idle" /\ pc = "Idle"
    /\ \E ot \in PricingTypes, s \in PricingSpots, k \in PricingStrikes,
          tt \in PricingTimes, rr \in PricingRates, vol \in PricingVols :
          /\ p_args' = [option_type |-> ot, fs |-> s, x |-> k, t |-> tt, r |-> rr, v |-> vol]
          /\ g_args' = [option_type |-> ot, fs |-> s, x |-> k, t |-> tt, r |-> rr,
                        b |-> black_scholes_carry(rr), v |-> vol]
    /\ p_entry' = "black_scholes"
    /\ g_call' = 1
    /\ p_pc' = "TestInputs"
    /\ UNCHANGED <<g_result, printed, p_result, solver_vars, euro_args, frames, running>>

\* garman_kohlhagen(option_type, fs, x, t, r, rf, v) is called: b = r - rf, then its _gbs call
GarmanKohlhagen ==
    /\ p_pc = "Idle" /\ pc = "Idle"
    /\ \E ot \in PricingTypes, s \in PricingSpots, k \in PricingStrikes,
          tt \in PricingTimes, rr \in PricingRates, rf \in ForeignRates, vol \in PricingVols :
          /\ p_args' = [option_type |-> ot, fs |-> s, x |-> k, t |-> tt, r |-> rr,
                        rf |-> rf, v |-> vol]
          /\ g_args' = [option_type |-> ot, fs |-> s, x |-> k, t |-> tt, r |-> rr,
                        b |-> garman_kohlhagen_carry(rr, rf), v |-> vol]
    /\ p_entry' = "garman_kohlhagen"
    /\ g_call' = 1
    /\ p_pc' = "TestInputs"
    /\ UNCHANGED <<g_result, printed, p_result, solver_vars, euro_args, frames, running>>

\* _gbs: the call of _gbs_test_inputs
GbsTestInputs ==
    /\ p_pc = "TestInputs"
    /\ printed' = printed \o gbs_test_inputs(g_args.option_type, g_args.fs, g_args.x,
                                             g_args.t, g_args.r, g_args.b, g_args.v)
    /\ p_pc' = "Compute"
    /\ UNCHANGED <<p_entry, p_args, g_args, g_call, g_result, p_result,
                   solver_vars, euro_args, frames, running>>

\* _gbs: the computation raises; neither caller catches, the exception propagates
GbsRaise ==
    /\ p_pc = "Compute"
    /\ gbs(g_args.option_type, g_args.fs, g_args.x,
           g_args.t, g_args.r, g_args.b, g_args.v).kind = "exception"
    /\ p_result' = gbs(g_args.option_type, g_args.fs, g_args.x,
                       g_args.t, g_args.r, g_args.b, g_args.v)
    /\ p_pc' = "Raised"
    /\ UNCHANGED <<p_entry, p_args, g_args, g_call, g_result, printed,
                   solver_vars, euro_args, frames, running>>

\* _gbs: the computation returns value, delta, gamma, theta, vega, rho to its caller
GbsReturn ==
    /\ p_pc = "Compute"
    /\ gbs(g_args.option_type, g_args.fs, g_args.x,
           g_args.t, g_args.r, g_args.b, g_args.v).kind = "result"
    /\ g_result' = gbs(g_args.option_type, g_args.fs, g_args.x,
                       g_args.t, g_args.r, g_args.b, g_args.v)
    /\ p_pc' = IF g_call = 1 THEN "Print" ELSE "Return"
    /\ UNCHANGED <<p_entry, p_args, g_args, g_call, printed, p_result,
                   solver_vars, euro_args, frames, running>>

\* black_scholes prints the first result, then calls _gbs again with the same arguments
BlackScholesPrint ==
    /\ p_pc = "Print"
    /\ p_entry = "black_scholes"
    /\ printed' = Append(printed, "result")
    /\ g_call' = 2
    /\ p_pc' = "TestInputs"
    /\ UNCHANGED <<p_entry, p_args, g_args, g_result, p_result,
                   solver_vars, euro_args, frames, running>>

\* black_scholes returns what its second _gbs call returned
BlackScholesReturn ==
    /\ p_pc = "Return"
    /\ p_result' = g_result
    /\ p_pc' = "Returned"
    /\ UNCHANGED <<p_entry, p_args, g_args, g_call, g_result, printed,
                   solver_vars, euro_args, frames, running>>

\* garman_kohlhagen prints the result and returns it
GarmanKohlhagenReturn ==
    /\ p_pc = "Print"
    /\ p_entry = "garman_kohlhagen"
    /\ printed' = Append(printed, "result")
    /\ p_result' = g_result
    /\ p_pc' = "Returned"
    /\ UNCHANGED <<p_entry, p_args, g_args, g_call, g_result,
                   solver_vars, euro_args, frames, running>>

----------------------------------------------------------------------------
(* euro_vol_implicite *)

\* the defaults of _gbs_vol_implicite: precision=.00001, below the resolution of the
\* prices here, is the smallest positive precision; max_steps=100
DefaultPrecision == 1
DefaultMaxSteps == 100

\* faulty variant: the operands are swapped
euro_carry_swapped(rr, qq) == qq - rr

\* b = r - q
euro_carry(rr, qq) == rr - qq

Dividends == {0, 5}

\* euro_vol_implicite(option_type, fs, x, t, r, q, cp) is called: b = r - q, then
\* _gbs_vol_implicite(option_type, fs, x, t, r, b, cp) with its defaults
EuroVolImplicite ==
    /\ p_pc = "Idle" /\ pc = "Idle"
    /\ \E ot \in OptionTypes, s \in SpotPrices, k \in Strikes, tq \in Times,
          rr \in Rates, qq \in Dividends, price \in MarketPrices :
          /\ euro_args' = [option_type |-> ot, fs |-> s, x |-> k, t |-> tq,
                           r |-> rr, q |-> qq, cp |-> price]
          /\ option_type' = ot /\ fs' = s /\ x' = k /\ t' = tq
          /\ r' = rr /\ b' = euro_carry(rr, qq) /\ cp' = price
    /\ val_fn' \in ValFns
    /\ precision' = DefaultPrecision
    /\ max_steps' = DefaultMaxSteps
    /\ pc' = "Estimating"
    /\ UNCHANGED <<newton_locals, bisect_locals, outcome, evals,
                   pricing_vars, frames, running>>

\* one call of a public function: black_scholes, garman_kohlhagen or
\* euro_vol_implicite, the last one running the solver
PricingNext ==
    \/ BlackScholes
    \/ GarmanKohlhagen
    \/ GbsTestInputs
    \/ GbsRaise
    \/ GbsReturn
    \/ BlackScholesPrint
    \/ BlackScholesReturn
    \/ GarmanKohlhagenReturn
    \/ EuroVolImplicite
    \/ NewtonStart
    \/ NewtonStep
    \/ NewtonBreak
    \/ NewtonLoopEnd
    \/ NewtonReturn
    \/ BisectStart
    \/ BisectStep
    \/ BisectLoopEnd
    \/ BisectReturn
    \/ BisectRaise

PricingSpec == Init /\ [][PricingNext]_vars

----------------------------------------------------------------------------
(* Several solver calls in one process: each call has its own arguments and  *)
(* locals (a Python function frame); the process runs one call at a time and *)
(* may switch to another call between two steps.                             *)

\* the arguments and locals of the running call
Frame ==
    [val_fn |-> val_fn, option_type |-> option_type,
     fs |-> fs, x |-> x, t |-> t, r |-> r, b |-> b,
     cp |-> cp, precision |-> precision, max_steps |-> max_steps,
     pc |-> pc,
     v |-> v, value |-> value, vega |-> vega, min_diff |-> min_diff, countr |-> countr,
     v_low |-> v_low, v_high |-> v_high, v_mid |-> v_mid, cp_mid |-> cp_mid,
     diff |-> diff, current_step |-> current_step,
     outcome |-> outcome, evals |-> evals]

\* the calls that run interleaved are drawn from these arguments
ConcInputs ==
    {[val_fn |-> "steep", option_type |-> "p", fs |-> 1000, x |-> 800, t |-> 1,
      r |-> 0, b |-> 0, cp |-> 20, precision |-> 1, max_steps |-> 2],
     [val_fn |-> "convex", option_type |-> "p", fs |-> 1000, x |-> 1000, t |-> 1,
      r |-> 0, b |-> 0, cp |-> 20, precision |-> 1, max_steps |-> 2],
     [val_fn |-> "convex", option_type |-> "p", fs |-> 1000, x |-> 1000, t |-> 1,
      r |-> 0, b |-> 5, cp |-> 1, precision |-> 1, max_steps |-> 2],
     [val_fn |-> "convex", option_type |-> "p", fs |-> 1000, x |-> 800, t |-> 1,
      r |-> 0, b |-> 0, cp |-> 600, precision |-> 1, max_steps |-> 2]}

\* the running call is invoked: its arguments are bound
ConcCall ==
    /\ pc = "Idle" /\ p_pc = "Idle"
    /\ \E a \in ConcInputs :
          /\ val_fn' = a.val_fn /\ option_type' = a.option_type
          /\ fs' = a.fs /\ x' = a.x /\ t' = a.t /\ r' = a.r /\ b' = a.b
          /\ cp' = a.cp /\ precision' = a.precision /\ max_steps' = a.max_steps
    /\ pc' = "Estimating"
    /\ UNCHANGED <<newton_locals, bisect_locals, outcome, evals, outside>>

\* the arguments, control state, outcome and history of call j come back
ResumeRest(j) ==
    /\ val_fn' = frames[j].val_fn /\ option_type' = frames[j].option_type
    /\ fs' = frames[j].fs /\ x' = frames[j].x /\ t' = frames[j].t
    /\ r' = frames[j].r /\ b' = frames[j].b
    /\ cp' = frames[j].cp /\ precision' = frames[j].precision
    /\ max_steps' = frames[j].max_steps
    /\ pc' = frames[j].pc
    /\ outcome' = frames[j].outcome /\ evals' = frames[j].evals

\* faulty variant: min_diff is one variable shared by all calls
ResumeLocalsSharedMinDiff(j) ==
    /\ v' = frames[j].v /\ value' = frames[j].value /\ vega' = frames[j].vega
    /\ min_diff' = min_diff /\ countr' = frames[j].countr
    /\ v_low' = frames[j].v_low /\ v_high' = frames[j].v_high
    /\ v_mid' = frames[j].v_mid /\ cp_mid' = frames[j].cp_mid
    /\ diff' = frames[j].diff /\ current_step' = frames[j].current_step

\* the locals of call j come back as it left them: v, value, vega, min_diff and
\* countr of _newton_vol_implicite; v_low, v_high, v_mid, cp_mid, diff and
\* current_step of _rech_dichotomique_vol_implicite
ResumeLocals(j) ==
    /\ v' = frames[j].v /\ value' = frames[j].value /\ vega' = frames[j].vega
    /\ min_diff' = frames[j].min_diff /\ countr' = frames[j].countr
    /\ v_low' = frames[j].v_low /\ v_high' = frames[j].v_high
    /\ v_mid' = frames[j].v_mid /\ cp_mid' = frames[j].cp_mid
    /\ diff' = frames[j].diff /\ current_step' = frames[j].current_step

\* the process leaves the running call where it is and goes on with call j
Switch(j) ==
    /\ j # running
    /\ frames' = [frames EXCEPT ![running] = Frame]
    /\ running' = j
    /\ ResumeRest(j)
    /\ ResumeLocals(j)
    /\ UNCHANGED <<pricing_vars, euro_args>>

ConcNext ==
    \/ ConcCall
    \/ \E j \in CallIds : Switch(j)
    \/ NewtonStart
    \/ NewtonStep
    \/ NewtonBreak
    \/ NewtonLoopEnd
    \/ NewtonReturn
    \/ BisectStart
    \/ BisectStep
    \/ BisectLoopEnd
    \/ BisectReturn
    \/ BisectRaise

ConcSpec == Init /\ [][ConcNext]_vars

----------------------------------------------------------------------------
(* The solver as a function of the arguments of the running call *)

RECURSIVE NewtonRun(_, _, _, _, _)
\* the while loop of _newton_vol_implicite from the locals given to its end:
\* the final <<v, value>>
NewtonRun(vv, val, vg, md, n) ==
    IF ~NewtonGuard(val, md, n) THEN <<vv, val>>
    ELSE IF OutOfBand(NewtonUpdate(vv, val, vg)) THEN <<NewtonUpdate(vv, val, vg), val>>
    ELSE NewtonRun(NewtonUpdate(vv, val, vg),
                   ValueOf(val_fn, NewtonUpdate(vv, val, vg)),
                   VegaOf(val_fn, NewtonUpdate(vv, val, vg)),
                   PyMin(Abs(cp - ValueOf(val_fn, NewtonUpdate(vv, val, vg))), md),
                   n + 1)

RECURSIVE BisectRun(_, _, _, _, _, _)
\* the while loop of _rech_dichotomique_vol_implicite from the locals given to
\* its end, and what the function then returns or raises
BisectRun(lo, hi, mid, cm, d, step) ==
    IF ~BisectGuard(d, step)
    THEN (IF BisectConverged(cm) THEN [kind |-> "return", vol |-> mid]
          ELSE ErrorReport(mid, d, precision))
    ELSE LET nlo == IF cm < cp THEN mid ELSE lo
             nhi == IF cm < cp THEN hi ELSE mid
             nmid == Clamp(Interpolate(nlo, nhi, ValueOf(val_fn, nlo), ValueOf(val_fn, nhi)))
         IN  BisectRun(nlo, nhi, nmid, ValueOf(val_fn, nmid),
                       Abs(cp - ValueOf(val_fn, nmid)), step + 1)

\* _rech_dichotomique_vol_implicite(val_fn, option_type, fs, x, t, r, b, cp, precision, max_steps)
rech_dichotomique_vol_implicite ==
    LET br == Bracket(vol_implicite_approx(option_type, fs, x, t, r, b, cp))
    IN  BisectRun(br[1], br[2], br[3], ValueOf(val_fn, br[3]),
                  Abs(cp - ValueOf(val_fn, br[3])), 0)

\* _newton_vol_implicite(val_fn, option_type, x, fs, t, b, r, cp, precision, max_steps)
newton_vol_implicite ==
    LET v0 == Clamp(vol_implicite_approx(option_type, fs, x, t, r, b, cp))
        end == NewtonRun(v0, ValueOf(val_fn, v0), VegaOf(val_fn, v0),
                         Abs(cp - ValueOf(val_fn, v0)), 0)
    IN  IF NewtonConverged(end[2]) THEN [kind |-> "return", vol |-> end[1]]
        ELSE rech_dichotomique_vol_implicite

----------------------------------------------------------------------------
(* Properties of the solver *)

InBand(w) == MIN_V <= w /\ w <= MAX_V

Last(sq) == sq[Len(sq)]

\* C1: every val_fn call the solver makes (first Newton call, Newton
\* re-evaluations, the calls at v_low, v_high and v_mid of the fallback) is
\* made at a volatility inside [MIN_V, MAX_V].
C1_EvaluationsInBand ==
    \A i \in 1..Len(evals) : InBand(evals[i][1])

\* a call that re-evaluated in the Newton loop and went through a fallback pass
C1_Witness ==
    /\ countr >= 1
    /\ current_step >= 1
    /\ Len(evals) >= 6

\* C2: a returned volatility is the volatility of the last val_fn call, and
\* the price at that volatility is within precision (strictly) of cp.
C2_ReturnedAtLastEvaluation ==
    pc = "Converged" =>
        /\ outcome.kind = "return"
        /\ outcome.vol = Last(evals)[1]
        /\ Last(evals)[2] < precision
        /\ Abs(cp - ValueOf(val_fn, outcome.vol)) < precision

\* a return from the Newton phase after at least one update
C2_Witness ==
    /\ pc = "Converged"
    /\ countr >= 1
    /\ current_step = 0
    /\ outcome = [kind |-> "return", vol |-> v]

\* C3 (as claimed): the fallback raises only when max_steps passes were made
\* and diff is still above precision; a loop that stops with diff <= precision,
\* diff = precision included, returns v_mid.
C3_RaiseOnlyWhenExhausted ==
    pc = "Failed" => (current_step = max_steps /\ diff > precision)

\* C4: the volatility that leaves the solver, returned or reported in the
\* error, lies in [MIN_V, MAX_V].
C4_OutcomeInBand ==
    /\ pc = "Converged" => InBand(outcome.vol)
    /\ pc = "Failed" => InBand(outcome.estimate)

\* an error whose estimate was clamped onto the upper edge of the band
C4_Witness ==
    /\ pc = "Failed"
    /\ current_step >= 1
    /\ outcome.estimate = MAX_V

\* C5: the error reports the final v_mid, the residual of the price at that
\* same v_mid, and the precision the caller asked for.
C5_ErrorTripleConsistent ==
    pc = "Failed" =>
        /\ outcome.estimate = v_mid
        /\ outcome.estimate = Last(evals)[1]
        /\ outcome.residual = Abs(cp - ValueOf(val_fn, outcome.estimate))
        /\ outcome.precision = precision

\* an error raised after the fallback moved v_mid, with residual and precision different
C5_Witness ==
    /\ pc = "Failed"
    /\ current_step >= 1
    /\ outcome.residual # outcome.precision
    /\ outcome.estimate # Bracket(vol_implicite_approx(option_type, fs, x, t, r, b, cp))[3]

\* C6 (as claimed): the estimate reported in the error is the best one of the
\* call: no earlier val_fn call, in either phase, had a strictly smaller residual.
C6_ReportedEstimateIsBest ==
    pc = "Failed" =>
        \A i \in 1..Len(evals) : evals[i][2] >= outcome.residual

\* the phase of the call a control point belongs to
Phase ==
    CASE pc = "Estimating"                    -> "Estimating"
      [] pc \in {"Newton", "NewtonEnd"}       -> "Newton"
      [] pc \in {"Bisection", "BisectionEnd"} -> "Bisection"
      [] pc = "Converged"                     -> "Converged"
      [] pc = "Failed"                        -> "Failed"
      [] pc = "Idle"                          -> "Idle"

\* C7: the phases follow Estimating -> Newton -> (Converged | Bisection) ->
\* (Converged | Failed); Newton is left for Bisection exactly when its last
\* residual is not below precision (step cap, non-improving step or iterate
\* outside the band), and nothing leads back to Newton or out of an end phase.
C7_PhaseOrder ==
    [][Phase' # Phase =>
        \/ Phase = "Idle" /\ Phase' = "Estimating"
        \/ Phase = "Estimating" /\ Phase' = "Newton"
        \/ /\ Phase = "Newton" /\ Phase' = "Converged"
           /\ Abs(cp - value) < precision
        \/ /\ Phase = "Newton" /\ Phase' = "Bisection"
           /\ ~(Abs(cp - value) < precision)
           /\ (countr = max_steps \/ Abs(cp - value) > min_diff \/ ~InBand(v))
        \/ Phase = "Bisection" /\ Phase' \in {"Converged", "Failed"}]_vars

\* a call that went through Newton updates and fallback passes and failed
C7_Witness ==
    /\ pc = "Failed"
    /\ countr >= 1
    /\ current_step >= 1

\* C8: the call ends, returning or raising, after at most max_steps Newton
\* updates and at most max_steps fallback passes.
C8_Terminates ==
    /\ [](countr <= max_steps /\ current_step <= max_steps)
    /\ <>(pc \in {"Converged", "Failed"})

\* a call that used up the step budget of both phases
C8_Witness ==
    /\ pc = "Failed"
    /\ max_steps = MaxSteps
    /\ countr = max_steps
    /\ current_step = max_steps

\* cp is the price val_fn gives at some volatility of the band
Attained == \E w \in MIN_V..MAX_V : ValueOf(val_fn, w) = cp

\* a volatility distance dv (units of 1/400) is at most precision (units of 1/10)
WithinPrecision(dv) == 10 * dv <= VolScale * precision

\* C9 (as claimed): when cp is the price at a known volatility of the band,
\* the call returns, and what it returns is within precision of that volatility.
C9_RoundTripVolatility ==
    (pc \in {"Converged", "Failed"} /\ Attained) =>
        /\ pc = "Converged"
        /\ \A w \in MIN_V..MAX_V :
              ValueOf(val_fn, w) = cp => WithinPrecision(Abs(outcome.vol - w))

\* C9 (amended): when cp is the price at a known volatility of the band and
\* the call returns, the price at the returned volatility is within precision
\* of cp.
C9_RoundTripPrice ==
    (pc = "Converged" /\ Attained) =>
        /\ InBand(outcome.vol)
        /\ Abs(ValueOf(val_fn, outcome.vol) - cp) < precision

\* a return far from a volatility that gives the same price
C9_Witness ==
    /\ pc = "Converged"
    /\ \E w \in MIN_V..MAX_V :
          ValueOf(val_fn, w) = cp /\ ~WithinPrecision(Abs(outcome.vol - w))

\* C10 (as claimed): with a strictly increasing price function and an
\* attained market price, the fallback never ends in the error.
C10_FallbackConverges ==
    (pc = "Failed" /\ StrictlyIncreasing(val_fn)) => ~Attained

\* C10 (amended): with a strictly increasing price function and an attained
\* market price, the fallback, once entered, ends: it returns with diff below
\* precision, or raises with diff not below precision, after max_steps passes
\* or with diff equal to precision.
C10_FallbackEnds ==
    (pc = "Bisection" /\ current_step = 0 /\ StrictlyIncreasing(val_fn) /\ Attained)
        ~> \/ pc = "Converged" /\ diff < precision
           \/ /\ pc = "Failed"
              /\ diff >= precision
              /\ (current_step = max_steps \/ diff = precision)

\* the fallback returned for a strictly increasing price function
C10_Witness ==
    /\ pc = "Converged"
    /\ current_step >= 1
    /\ StrictlyIncreasing(val_fn)
    /\ Attained

----------------------------------------------------------------------------
(* Properties of the pricing functions *)

\* the lines printed so far
Printed == {printed[i] : i \in 1..Len(printed)}

\* the pricing call is over: it returned or an exception left it
PricingOver == p_pc \in {"Returned", "Raised"}

\* the inputs of the _gbs call that lie outside their Domain Limit
Offending ==
    {n \in {"option_type", "X", "FS", "T", "b", "r", "V"} :
        \/ n = "option_type" /\ g_args.option_type \notin {"c", "p"}
        \/ n = "X" /\ (DecLess(g_args.x, MIN_X) \/ DecLess(MAX_X, g_args.x))
        \/ n = "FS" /\ (DecLess(g_args.fs, MIN_FS) \/ DecLess(MAX_FS, g_args.fs))
        \/ n = "T" /\ (DecLess(g_args.t, MIN_T) \/ DecLess(MAX_T, g_args.t))
        \/ n = "b" /\ (g_args.b < MIN_b \/ g_args.b > MAX_b)
        \/ n = "r" /\ (g_args.r < MIN_r \/ g_args.r > MAX_r)
        \/ n = "V" /\ (g_args.v < MIN_V \/ g_args.v > MAX_V)}

\* the returned PricingResult is the formula of the requested kind on the
\* arguments the caller gave and the carry derived from them, none of them altered
ComputedAsGiven ==
    /\ p_pc = "Returned"
    /\ p_result.kind = "result"
    /\ p_result.formula = (IF p_args.option_type = "c" THEN "call" ELSE "put")
    /\ p_result.fs = p_args.fs /\ p_result.x = p_args.x /\ p_result.t = p_args.t
    /\ p_result.r = p_args.r /\ p_result.v = p_args.v
    /\ p_result.b = g_args.b

\* the formula of _gbs is defined at the arguments: sqrt(t), log(fs / x) and the
\* division by v * sqrt(t) all exist
FormulaDefined ==
    /\ DecLess(DecZero, g_args.t)
    /\ g_args.v # 0
    /\ g_args.x # DecZero /\ g_args.fs # DecZero
    /\ DecLess(g_args.fs, DecZero) = DecLess(g_args.x, DecZero)

InputNames == {"X", "FS", "T", "b", "r", "V"}

\* the inputs of the _gbs call that are exactly equal to one of their limits
AtLimit ==
    {n \in InputNames :
        \/ n = "X" /\ g_args.x \in {MIN_X, MAX_X}
        \/ n = "FS" /\ g_args.fs \in {MIN_FS, MAX_FS}
        \/ n = "T" /\ g_args.t \in {MIN_T, MAX_T}
        \/ n = "b" /\ g_args.b \in {MIN_b, MAX_b}
        \/ n = "r" /\ g_args.r \in {MIN_r, MAX_r}
        \/ n = "V" /\ g_args.v \in {MIN_V, MAX_V}}

\* _gbs_test_inputs has run at least once in this pricing call
InputsTested == p_pc # "Idle" /\ ~(p_pc = "TestInputs" /\ g_call = 1)

\* C12: the Domain Limits are inclusive. Once the inputs are tested, a diagnostic
\* is printed for a parameter if and only if it is strictly below its minimum or
\* strictly above its maximum; an input exactly equal to a limit gets none, and
\* a call whose inputs all lie within their limits, the limits included, never
\* fails.
C12_LimitsInclusive ==
    InputsTested =>
        /\ \A n \in InputNames : n \in Printed <=> n \in Offending
        /\ AtLimit \cap Printed = {}
        /\ (Offending \cap InputNames = {}) => p_pc # "Raised"

\* a call whose six numeric inputs are all exactly at a limit returned,
\* and nothing but the result was printed
C12_Witness ==
    /\ p_pc = "Returned"
    /\ AtLimit = InputNames
    /\ Printed = {"result"}

\* the engine applied to the arguments of the pricing call with the carry given
Engine(carry) ==
    gbs(p_args.option_type, p_args.fs, p_args.x, p_args.t, p_args.r, carry, p_args.v)

\* the outcome of the pricing call equals res: the same PricingResult returned,
\* or the same exception
PricingOutcomeIs(res) ==
    /\ p_result = res
    /\ p_pc = (IF res.kind = "result" THEN "Returned" ELSE "Raised")

\* C13: the specializations are the same engine with a different carry.
\* black_scholes ends as the engine with carry = r, garman_kohlhagen as the engine
\* with carry = r - rf, so garman_kohlhagen with rf = 0 ends exactly as the equity
\* pricing of the same remaining inputs; a call of euro_vol_implicite runs the
\* solver on its own arguments with carry = r - q, starting at the estimate for
\* that carry.
C13_SameEngineOtherCarry ==
    /\ (PricingOver /\ p_entry = "black_scholes") =>
           PricingOutcomeIs(Engine(p_args.r))
    /\ (PricingOver /\ p_entry = "garman_kohlhagen") =>
           /\ PricingOutcomeIs(Engine(p_args.r - p_args.rf))
           /\ p_args.rf = 0 => PricingOutcomeIs(Engine(p_args.r))
    /\ (euro_args # NoArgs) =>
           /\ b = euro_args.r - euro_args.q
           /\ <<option_type, fs, x, t, r, cp>> =
                  <<euro_args.option_type, euro_args.fs, euro_args.x,
                    euro_args.t, euro_args.r, euro_args.cp>>
           /\ evals # << >> =>
                  evals[1][1] = Clamp(vol_implicite_approx(euro_args.option_type,
                                    euro_args.fs, euro_args.x, euro_args.t, euro_args.r,
                                    euro_args.r - euro_args.q, euro_args.cp))

\* garman_kohlhagen with a foreign rate of zero returned a result
C13_Witness ==
    /\ p_entry = "garman_kohlhagen"
    /\ p_pc = "Returned"
    /\ p_args.rf = 0
    /\ p_result.kind = "result"
    /\ p_result.b = p_args.r

\* euro_vol_implicite with a dividend yield other than zero came to an end
C13_WitnessEuro ==
    /\ euro_args # NoArgs
    /\ euro_args.q # 0
    /\ pc \in {"Converged", "Failed"}

----------------------------------------------------------------------------
(* Properties of interleaved solver calls *)

\* C14: solver calls that run interleaved do not interfere. However the steps of
\* the calls are interleaved, a call that ends returns the volatility, or raises
\* the error, that the same call returns or raises when it runs alone.
C14_NoInterference ==
    pc \in {"Converged", "Failed"} => outcome = newton_vol_implicite

\* two calls, suspended and resumed in the middle of their loops, have both ended
C14_Witness ==
    /\ pc \in {"Converged", "Failed"}
    /\ \E c \in CallIds \ {running} :
          /\ frames[c].pc \in {"Converged", "Failed"}
          /\ frames[c].countr + frames[c].current_step >= 1
          /\ <<frames[c].val_fn, frames[c].cp>> # <<val_fn, cp>>
    /\ countr + current_step >= 2

----------------------------------------------------------------------------
(* Properties of the computed value *)

\* the pricing call returned the result of a valid spec that the tables cover
ValidTabulated ==
    /\ p_pc = "Returned"
    /\ Offending = {}
    /\ Tabulated(p_result.fs, p_result.x, p_result.t, p_result.r, p_result.b, p_result.v)

\* the same spec with the other kind, priced by the engine
OtherKind ==
    gbs(IF p_args.option_type = "c" THEN "p" ELSE "c",
        p_result.fs, p_result.x, p_result.t, p_result.r, p_result.b, p_result.v)

\* C15: put-call parity. For a valid spec and the spec that differs from it only
\* in kind, call.value - put.value = fs * exp((b - r) * t) - x * exp(-r * t), up to
\* the rounding of the four products (half a hundredth each).
C15_PutCallParity ==
    ValidTabulated =>
        LET call == IF p_result.formula = "call" THEN p_result ELSE OtherKind
            put == IF p_result.formula = "put" THEN p_result ELSE OtherKind
        IN  /\ call.formula = "call" /\ put.formula = "put"
            /\ Abs((ResultValue(call) - ResultValue(put))
                   - (CarriedSpot(p_result.fs, p_result.t, p_result.r, p_result.b)
                      - DiscountedStrike(p_result.x, p_result.t, p_result.r))) <= 2

\* a put away from the money with carry other than the rate was priced, both
\* the call and the put value well above zero
C15_Witness ==
    /\ ValidTabulated
    /\ p_result.formula = "put"
    /\ p_result.x # p_result.fs
    /\ p_result.b # p_result.r
    /\ ResultValue(p_result) > 100
    /\ ResultValue(OtherKind) > 100

----------------------------------------------------------------------------
(* Properties of the Newton phase.  During it evals holds the evaluations   *)
(* of the Newton phase, the last one being the current iterate's.           *)

MinOf(S) == CHOOSE m \in S : \A n \in S : m <= n

\* residual of the current iterate
LastResidual == Last(evals)[2]

\* best residual seen before the current iterate was evaluated
BestBefore == MinOf({evals[i][2] : i \in 1..(Len(evals) - 1)})

\* the last update left the residual strictly above the best seen before it
Worse == Len(evals) >= 2 /\ LastResidual > BestBefore

\* the last update did not bring the residual below the best seen before it
NotBetter == Len(evals) >= 2 /\ LastResidual >= BestBefore

\* this step of the Newton phase computes a new v
Updated == pc = "Newton" /\ (v' # v \/ evals' # evals)

\* C16: the Newton phase performs a further update only while
\* precision <= residual <= least residual of all Newton evaluations so far and
\* fewer than max_steps evaluated updates were made; hence the first iterate whose
\* residual is strictly greater than the best seen before ends the phase with no
\* further update, whatever the step count.
C16_NewtonGuard ==
    [][pc = "Newton" =>
          /\ Updated =>
                /\ precision <= LastResidual
                /\ LastResidual <= MinOf({evals[i][2] : i \in 1..Len(evals)})
                /\ Len(evals) - 1 < max_steps
          /\ Worse => (~Updated /\ pc' = "NewtonEnd")]_vars

\* the phase ended on a worse iterate after one update, with two more allowed
C16_Witness ==
    /\ pc = "NewtonEnd"
    /\ Worse
    /\ countr = 1
    /\ max_steps = 3

\* C17 as stated: as soon as one update fails to bring the residual below the
\* best seen before, a residual exactly equal to it included, no further Newton
\* update is performed.
C17_StopsWhenNotBetter ==
    [][(pc = "Newton" /\ NotBetter) => ~Updated]_vars

\* C17 amended: as soon as one update leaves the residual strictly above the best
\* seen before, no further Newton update is performed and the call goes on with the
\* bisection; an update that leaves the residual exactly equal to the best seen
\* before does not end the phase: while the residual is at least precision and
\* fewer than max_steps updates were made, the next update follows.
C17_StopsWhenWorse ==
    [][/\ (pc = "Newton" /\ Worse) => (~Updated /\ pc' = "NewtonEnd")
       /\ (pc = "NewtonEnd" /\ Worse) => pc' = "Bisection"
       /\ (pc = "Newton" /\ NotBetter /\ ~Worse
              /\ precision <= LastResidual /\ Len(evals) - 1 < max_steps) => Updated]_vars

\* an update left the residual exactly equal to the best seen before, and
\* another update followed
C17_Witness ==
    /\ pc = "Newton"
    /\ Len(evals) >= 3
    /\ \E i \in 2..(Len(evals) - 1) :
          evals[i][2] = MinOf({evals[j][2] : j \in 1..(i - 1)})

\* C18: when a Newton update gives a v outside [MIN_V, MAX_V], the phase stops at
\* once: v keeps the value computed, not clamped, the pricing function is not
\* evaluated at it and no step is counted; the call then goes on with the
\* bisection and does not return.
C18_DomainExit ==
    [][/\ (pc = "Newton" /\ NewtonGuard(value, min_diff, countr)
              /\ ~InBand(NewtonUpdate(v, value, vega))) =>
              /\ v' = NewtonUpdate(v, value, vega)
              /\ pc' = "NewtonEnd"
              /\ evals' = evals /\ countr' = countr
              /\ value' = value /\ min_diff' = min_diff
       /\ (pc = "NewtonEnd" /\ ~InBand(v)) =>
              (pc' = "Bisection" /\ outcome' = NoOutcome)]_vars

\* after a counted step an update left the band below MIN_V; the bisection began
C18_Witness ==
    /\ pc = "Bisection"
    /\ v < MIN_V
    /\ countr >= 1
    /\ Len(evals) = countr + 2

\* the bisection is about to test its loop condition for the first time
BeforeFirstIteration == pc = "Bisection" /\ current_step = 0

\* the starting estimate of the running call, as _vol_implicite_approx gives it
StartingEstimate == vol_implicite_approx(option_type, fs, x, t, r, b, cp)

\* C19: before the first iteration of the bisection, with e the unclamped
\* starting estimate: if e <= MIN_V or e >= MAX_V the bracket is
\* (MIN_V, MAX_V, midpoint of the band); otherwise it is (the larger of MIN_V
\* and e / 2, the smaller of MAX_V and 3 e / 2, e); either way
\* MIN_V <= v_low < v_mid < v_high <= MAX_V.
C19_InitialBracket ==
    BeforeFirstIteration =>
        LET e == StartingEstimate
            half == RoundDiv(e, 2)
            threeHalves == RoundDiv(3 * e, 2)
        IN  /\ (e <= MIN_V \/ e >= MAX_V) =>
                  /\ v_low = MIN_V
                  /\ v_high = MAX_V
                  /\ 2 * v_mid = MIN_V + MAX_V
            /\ (MIN_V < e /\ e < MAX_V) =>
                  /\ v_low = (IF half < MIN_V THEN MIN_V ELSE half)
                  /\ v_high = (IF threeHalves > MAX_V THEN MAX_V ELSE threeHalves)
                  /\ v_mid = e
            /\ MIN_V <= v_low /\ v_low < v_mid /\ v_mid < v_high /\ v_high <= MAX_V

\* a bisection began from an estimate inside the band whose upper bracket end
\* was cut back to MAX_V
C19_Witness ==
    /\ BeforeFirstIteration
    /\ MIN_V < StartingEstimate /\ StartingEstimate < MAX_V
    /\ RoundDiv(3 * StartingEstimate, 2) > MAX_V
    /\ v_high = MAX_V

\* a bisection began from an estimate exactly on MIN_V, over the whole band
C19_WitnessWide ==
    /\ BeforeFirstIteration
    /\ StartingEstimate = MIN_V
    /\ v_low = MIN_V /\ v_high = MAX_V

\* the call is over
CallEnded == pc \in {"Converged", "Failed"}

\* C20: the bisection starts again from the inputs alone. Before its first
\* iteration its locals are those of a direct call of the bisection on the
\* inputs, whatever v, value, min_diff and countr the Newton search left, and a
\* call whose Newton search did not converge ends with the outcome of that
\* direct call, whether Newton ended by leaving the band or by its loop
\* condition.
C20_BisectionFromInputsAlone ==
    /\ BeforeFirstIteration =>
           BisectRun(v_low, v_high, v_mid, cp_mid, diff, 0) = rech_dichotomique_vol_implicite
    /\ (pc \in {"Bisection", "BisectionEnd"}) => ~NewtonConverged(value)
    /\ (CallEnded /\ ~NewtonConverged(value)) =>
           outcome = rech_dichotomique_vol_implicite

\* a call ended after the Newton search made a step and then left the band, at
\* a v that is not the starting estimate, and the bisection iterated
C20_Witness ==
    /\ CallEnded
    /\ ~InBand(v)
    /\ countr >= 1
    /\ current_step >= 1
    /\ outcome = rech_dichotomique_vol_implicite

\* a call ended after the Newton search stopped inside the band, on a residual
\* above the best, at a v that is not the starting estimate, and the bisection
\* iterated
C20_WitnessWorse ==
    /\ CallEnded
    /\ InBand(v)
    /\ v # StartingEstimate
    /\ Abs(cp - value) > min_diff
    /\ current_step >= 1
    /\ outcome = rech_dichotomique_vol_implicite

\* the bracket the bisection of the running call starts from
InitialBracket == Bracket(StartingEstimate)

\* the initial bracket holds the market price between the prices at its ends
InitiallyBracketed ==
    /\ ValueOf(val_fn, InitialBracket[1]) <= cp
    /\ cp <= ValueOf(val_fn, InitialBracket[2])

\* the bisection is at the head of its loop, or has just left it
InBisection == pc \in {"Bisection", "BisectionEnd"}

\* a pass of the bisection loop is being made
Iteration == pc = "Bisection" /\ current_step' = current_step + 1

\* C21: when the price function is strictly increasing in volatility and the
\* initial bracket has price(v_low) <= cp <= price(v_high), then at every
\* iteration of the bisection v_low <= v_mid <= v_high and
\* price(v_low) <= cp <= price(v_high), and each iteration replaces exactly one
\* end of the bracket by v_mid and leaves the other as it was.
C21_BracketPreserved ==
    [][(StrictlyIncreasing(val_fn) /\ InitiallyBracketed) =>
          /\ InBisection' =>
                /\ v_low' <= v_mid' /\ v_mid' <= v_high'
                /\ ValueOf(val_fn, v_low') <= cp
                /\ cp <= ValueOf(val_fn, v_high')
          /\ Iteration =>
                /\ \/ (v_low' = v_mid /\ v_high' = v_high)
                   \/ (v_high' = v_mid /\ v_low' = v_low)
                /\ ~(v_low' = v_mid /\ v_high' = v_mid)]_vars

\* a bracketed bisection on a strictly increasing price function moved its
\* lower end and then its upper end
C21_Witness ==
    /\ InBisection
    /\ StrictlyIncreasing(val_fn) /\ InitiallyBracketed
    /\ current_step >= 2
    /\ v_low # InitialBracket[1]
    /\ v_high # InitialBracket[2]

\* C22: in every iteration of the bisection the interpolation is computed with
\* v_low < v_high, for every market price: the bracket neither collapses to a
\* point nor inverts, so cp_high - cp_low is never the difference of two prices
\* taken at the same volatility.
C22_NonDegenerate ==
    [][Iteration => v_low' < v_high']_vars

====
